---- MODULE Spec2Model ----
(***************************************************************************)
(* A model of the scene-interaction engine of src/app/agv/page.tsx: the   *)
(* imported-asset list, the drag controller (DragMove and the Page's      *)
(* onPick/onMove/onDrop), the undo stack, the attach/carry toggle (KeyQ)  *)
(* and the vehicle with its telemetry sample.                             *)
(*                                                                         *)
(* Coordinates are integers in units of 0.02 world units (the vertical    *)
(* drag sensitivity of one pixel), relative to the vehicle's initial      *)
(* position.  The vehicle's yaw is counted in quarter turns, which keeps  *)
(* the rotation of a carried asset's offset exact.                        *)
(***************************************************************************)
EXTENDS Integers, Sequences, FiniteSets, TLC

\* ------------------------------------------------------------------ bounds
MaxAssets == 2      \* imports per behaviour (ids 1..MaxAssets)
MaxSessions == 2    \* armed drag sessions per behaviour
MaxLift == 1        \* heights 0..MaxLift, in units
MaxRange == 1       \* the arena spans MaxRange cells of pickRadius in X and in Z
Nudge == 5          \* distance the vehicle covers in one short frame, in units
MaxToggles == 2     \* toggle commands per behaviour
MaxRuleDefs == 2    \* Add Rule clicks per behaviour
MaxGroups == 2      \* Create Group clicks per behaviour
MaxVol == 2         \* largest bounding-box volume of a hit
MaxHits == 3        \* hits of one ray
MaxReloads == 1     \* reloads of the page per behaviour
MaxName == 3        \* characters of a file name
MaxFiles == 1       \* files stored by the upload endpoint per behaviour

\* ------------------------------------------------------- program constants
UnitsPerMetre == 50               \* 1 / 0.02, the vertical drag sensitivity
pickRadius == 2 * UnitsPerMetre   \* const pickRadius = 2
Cell == pickRadius                \* spacing of the sampled XZ grid

Ids == 1 .. MaxAssets
NoId == 0
None == <<>>
PointerXs == {0, 1}
PointerYs == {0, 1}
initialAgvPos == <<0, 0, 0>>

\* uuids: the vehicle's group, the PickupBox mesh, a mesh of the environment, then
\* the group of imported asset i
agvUuid == 9
boxUuid == 10
Meshes == {11}
UuidOf(i) == 20 + i
UploadUuids == {UuidOf(i) : i \in Ids}
UploadOf(u) == u - 20
Uuids == Meshes \cup UploadUuids \cup {agvUuid}
\* the meshes a ray can meet besides the environment's: the body of the vehicle and
\* the mesh inside the group of an imported asset
bodyMesh == 8
envRoot == 12
MeshOf(i) == 30 + i
\* where the environment's mesh stands: at the vehicle's start
MeshPos(m) == <<0, 0, 0>>
\* pickupPositions[0] and the initial pickupZ, relative to initialAgvPos
boxX == -40
initialPickupZ == 2180
\* the camera: heights above the ground in units; the initial camera stands 4 above
\* the vehicle, followHeight = max(1.2, height * 0.9) and the fpv node
\* max(0.6, size.y * 0.75) above the vehicle's origin, at their least values
initialCameraY == 4 * UnitsPerMetre
MinCameraY == 10
followHeight == 60
fpvHeight == 30
CamModes == {"ORBIT", "FOLLOW", "FPV"}
CameraYs == {-40, 0, MinCameraY, initialCameraY}
GroupIds == 1 .. MaxGroups

VARIABLES
    uploads,          \* useState uploads: sequence of [id, position, scale]
    nodes,            \* the three.js group of every id: [parent, pos]
    objMap,           \* ids with an entry in uploadObjectMapRef
    imported,         \* number of imports resolved so far (ids are name-Date.now())
    history,          \* uploadHistoryRef: stack of snapshots, top is the last element
    pendingUndo,      \* pendingUndoRef: <<snapshot>> or None
    draggedUploadId,  \* useState draggedUploadId
    dragging,         \* draggingRef
    dragY,            \* dragYRef: <<y>> or None
    dragPos,          \* dragPosRef: position or None
    lastPointer,      \* lastPointerRef: <<clientX, clientY>> or None
    dragMode,         \* dragModeRef: "Y", "XZ" or "null"
    dragOffset,       \* dragOffsetRef: <<ox, oz>> or None
    arrowDown,        \* arrowDownRef
    agv,              \* agvRef.current: [pos, yaw]
    agvPos,           \* useState agvPos, the telemetry sample
    acc,              \* acc of AGVTelemetry, in short frames since the last sample
    attachRules,      \* useState attachRules: sequence of [id, offset]
    carriedIds,       \* useState carriedIds
    selectedUploadIds,\* useState selectedUploadIds
    groups,           \* useState groups: sequence of [id, hidden, items]
    groupSeq,         \* groups created so far (ids are name-Date.now())
    selectedGroupId,  \* useState selectedGroupId
    hiddenUuids,      \* useState hiddenUuids, the hidden-id ledger
    visible,          \* the visible flag of every node, by uuid
    hoveredMesh,      \* useState hoveredMesh: the uuid under the pointer, NoId for ""
    hoverUploadId,    \* useState hoverUploadId
    pickupZ,          \* useState pickupZ
    box,              \* PickupBox: [carried, canPick, carriedRef]
    clones,           \* the copies PickupBox has added to the scene graph: [of, parent]
    selectedPos,      \* useState selectedPos: a position or None
    uploadStatus,     \* useState uploadStatus
    store,            \* localStorage: the values under agv_uploads, agv_groups and
                      \* agv_hidden_uuids, each <<value>> or None for an absent key
    mounted,          \* the mount effects of the Page have run
    cam,              \* the camera: [mode, y], y its height above the ground
    disk,             \* public/uploads of the server: the names of the stored files
    obs               \* observation of the run: what the last steps did

progVars == <<uploads, nodes, objMap, imported, history, pendingUndo, draggedUploadId,
              dragging, dragY, dragPos, lastPointer, dragMode, dragOffset, arrowDown,
              agv, agvPos, acc, attachRules, carriedIds, selectedUploadIds,
              selectedPos, uploadStatus, store, mounted, cam, disk>>
vars == <<progVars, obs>>

dragRefs == <<dragging, dragY, dragPos, lastPointer, dragMode, dragOffset>>
carryVars == <<agv, agvPos, acc, attachRules, carriedIds, selectedUploadIds>>
groupVars == <<groups, groupSeq, selectedGroupId, hiddenUuids, visible>>
hoverVars == <<hoveredMesh, hoverUploadId, pickupZ>>
pickupVars == <<box, clones>>
sideVars == <<groupVars, hoverVars, pickupVars>>
panelVars == <<selectedPos, uploadStatus>>

\* ------------------------------------------------------------- vectors
Abs(n) == IF n < 0 THEN -n ELSE n

VAdd(a, b) == <<a[1] + b[1], a[2] + b[2], a[3] + b[3]>>
VSub(a, b) == <<a[1] - b[1], a[2] - b[2], a[3] - b[3]>>

\* rotation about Y by q quarter turns (THREE.Object3D.rotation.y = q * 90 deg)
RotY(q, v) ==
    CASE q = 0 -> v
      [] q = 1 -> <<v[3], v[2], -v[1]>>
      [] q = 2 -> <<-v[1], v[2], -v[3]>>
      [] q = 3 -> <<-v[3], v[2], v[1]>>

\* the sampled part of the world: the quadrant in front of the initial vehicle
InArena(p) ==
    /\ 0 <= p[1] /\ p[1] <= MaxRange * Cell
    /\ -MaxRange * Cell <= p[3] /\ p[3] <= 0
    /\ 0 <= p[2] /\ p[2] <= MaxLift

\* ----------------------------------------------------------- the scene
IndexOf(ups, id) ==
    IF \E i \in 1 .. Len(ups) : ups[i].id = id
    THEN CHOOSE i \in 1 .. Len(ups) : ups[i].id = id
    ELSE 0

HasId(ups, id) == IndexOf(ups, id) # 0
PosOf(ups, id) == ups[IndexOf(ups, id)].position

\* obj.getWorldPosition(): the vehicle is a child of the scene root
WorldOf(nd, vehicle) ==
    IF nd.parent = "agv" THEN VAdd(vehicle.pos, RotY(vehicle.yaw, nd.pos)) ELSE nd.pos

WorldPos(id) == WorldOf(nodes[id], agv)

\* a map that writes the position into every entry
SetPositionAll(ups, id, pos) ==
    [i \in 1 .. Len(ups) |-> [ups[i] EXCEPT !.position = pos]]

\* prev.map((u) => (u.id === id ? { ...u, position: pos } : u))
SetPosition(ups, id, pos) ==
    [i \in 1 .. Len(ups) |-> IF ups[i].id = id THEN [ups[i] EXCEPT !.position = pos]
                                               ELSE ups[i]]

\* uploads.map((u) => ({ ...u, position: [...u.position] }))
Snapshot(ups) ==
    [i \in 1 .. Len(ups) |-> [id |-> ups[i].id, position |-> ups[i].position,
                              scale |-> ups[i].scale]]

\* The re-render that follows a state change: <UploadedGLB> mounts a group under the
\* scene for a new id, applies a changed position prop to the existing group, and
\* unmounts the group of an id that left the list (scene.remove finds only its own
\* children).
Render(old, new, nd) ==
    [i \in Ids |->
        IF HasId(new, i)
        THEN IF ~HasId(old, i)
             THEN [parent |-> "scene", pos |-> PosOf(new, i)]
             ELSE IF PosOf(new, i) # PosOf(old, i)
                  THEN [nd[i] EXCEPT !.pos = PosOf(new, i)]
                  ELSE nd[i]
        ELSE IF HasId(old, i) /\ nd[i].parent = "scene"
             THEN [nd[i] EXCEPT !.parent = "none"]
             ELSE nd[i]]

\* onReady: uploadObjectMapRef.current.set(id, obj) for every mounted group
Ready(new, om) == om \cup {i \in Ids : HasId(new, i)}

\* raycaster.ray.intersectPlane(plane, point) under the pointer: the top row of the
\* viewport looks above the horizon and meets no horizontal plane
IntersectPlane(px, py) == IF py = 0 THEN None ELSE <<px * Cell, 0>>

\* ------------------------------------------------------------ observation
\* obs records what the run did; no action reads it except to bound the run.
\*   op          the last operation: "Arm", "Move", "Drop", "Idle" (a pointer-up or
\*               pointer-leave outside a session), "Undo", "Toggle" or "Other"
\*   afterDrop   the last operation was an undo that directly followed a drop
\*   firstMode   branch that handled the first pointer-move of the session
\*   lastMode    branch that handled the latest pointer-move of the session
\*   moved       the session has handled a pointer-move
\*   sessions    armed sessions so far
\*   toggles     toggle commands so far
\*   ruleDefs    Add Rule clicks so far
\*   pushes      HistoryEntries pushed so far
\*   sessPushes  HistoryEntries pushed since the latest arming pointer-down
\*   movedDrops  sessions ended after at least one pointer-move
\*   bareDrops   sessions ended without any pointer-move
\*   dropMoved   the latest ended session had handled a pointer-move
\*   preDrag     <<uploads>> as they were at the arming pointer-down of the session
\*   shadow      the imported-asset lists at the arming of every dropped session
\*               that has not been undone, oldest first
\*   before      <<Before>> as it was before the latest undo, toggle, rule definition
\*               or pointer event outside a session, else None
\*   call        after a delete: <<how the call ended, whether the file existed, the
\*               answer of the endpoint or how the call ended>>
\*   prev        <<localStorage as the previous session left it>> since the latest
\*               reload of the page, else None
\*   reloads     reloads of the page so far
\*   answer      after a request to /api/upload: the response
\*   body        after a request to /api/upload: its body
\*   ray         after a pointer-move of MeshPicker with hits: <<the hits, the mesh
\*               chosen as hit>>
\*   mv          after a handled pointer-move with a dragged asset in the list:
\*               <<its position before the move, the clientY delta of the move>>
\*   popped      <<entry>> the latest undo should restore, else None
\*   att         per id: <<world position before the attach, the rule's offset>> while
\*               the id is carried and the vehicle has not moved since, else None
\*   rt          per id: <<world position before the attach, the rule's offset>> when
\*               the latest operation, a toggle, detached the id and att held, else None
\*   hold        per id: <<the rule's offset at the attach>> while the id is carried,
\*               else None
\*   grab        <<grabbed id, pending snapshot, captured height, captured offset>> of
\*               the pointer-down that began the active session, else None
\*   armCarried  the latest operation, an arming pointer-down, grabbed a carried asset
\*   defined     <<the rules>> the latest operation, an Add Rule click, built
\*   deleted     the id the latest operation, a delete, removed, else NoId
\*   readd       the latest operation, an add-member click, named an id that the
\*               selected group listed already
NoInfo == [i \in Ids |-> None]

ObsInit ==
    [op |-> "Other", afterDrop |-> FALSE, firstMode |-> "null", lastMode |-> "null",
     moved |-> FALSE, sessions |-> 0, toggles |-> 0, ruleDefs |-> 0, pushes |-> 0, sessPushes |-> 0,
     movedDrops |-> 0, bareDrops |-> 0, dropMoved |-> FALSE, preDrag |-> None,
     shadow |-> <<>>, before |-> None, popped |-> None, att |-> NoInfo, rt |-> NoInfo,
     hold |-> NoInfo, grab |-> None, armCarried |-> FALSE, defined |-> None, deleted |-> NoId,
     readd |-> FALSE, mv |-> None, call |-> None, ray |-> None,
     answer |-> None, body |-> None,
     prev |-> None, reloads |-> 0]

Step(o, name) ==
    [o EXCEPT !.op = name, !.afterDrop = FALSE, !.before = None, !.popped = None,
              !.rt = NoInfo, !.armCarried = FALSE, !.defined = None, !.deleted = NoId,
              !.readd = FALSE, !.mv = None, !.call = None, !.ray = None,
              !.answer = None, !.body = None]

Before == <<uploads, carriedIds, attachRules, history, nodes, agv>>

\* ------------------------------------------------------------------ Init
Init ==
    /\ uploads = <<>>
    /\ nodes = [i \in Ids |-> [parent |-> "none", pos |-> <<0, 0, 0>>]]
    /\ objMap = {}
    /\ imported = 0
    /\ history = <<>>
    /\ pendingUndo = None
    /\ draggedUploadId = NoId
    /\ dragging = FALSE
    /\ dragY = None
    /\ dragPos = None
    /\ lastPointer = None
    /\ dragMode = "null"
    /\ dragOffset = None
    /\ arrowDown = FALSE
    /\ agv = [pos |-> initialAgvPos, yaw |-> 0]
    /\ agvPos = initialAgvPos
    /\ acc = 0
    /\ attachRules = <<>>
    /\ carriedIds = {}
    /\ selectedUploadIds = <<>>
    /\ groups = <<>>
    /\ groupSeq = 0
    /\ selectedGroupId = NoId
    /\ hiddenUuids = <<>>
    /\ visible = [u \in Uuids |-> TRUE]
    /\ hoveredMesh = NoId
    /\ hoverUploadId = NoId
    /\ pickupZ = initialPickupZ
    /\ box = [carried |-> FALSE, canPick |-> FALSE, carriedRef |-> 0]
    /\ clones = <<>>
    /\ selectedPos = None
    /\ uploadStatus = ""
    /\ store = [uploads |-> <<<<>>>>, groups |-> <<<<>>>>, hidden |-> <<<<>>>>]
    /\ mounted = TRUE
    /\ cam = [mode |-> "ORBIT", y |-> initialCameraY]
    /\ disk = {}
    /\ obs = ObsInit

\* setUploads(new) and the re-render it causes
Commit(new, nd) ==
    /\ uploads' = new
    /\ store' = [store EXCEPT !.uploads = <<new>>]
    /\ nodes' = Render(uploads, new, nd)
    /\ objMap' = Ready(new, objMap)

\* ---------------------------------------------------------------- import
\* POST of /api/upload: 400 without a file, the error of a rejected writeFile (the
\* framework answers 500), else the url and name of the stored file
UploadPost(hasFile, writeOk) ==
    IF ~hasFile THEN "400" ELSE IF ~writeOk THEN "500" ELSE "ok"

\* file names: strings of at most MaxName characters over letters, digits, the
\* three punctuation marks the pattern allows, a blank, a non-ASCII letter and the
\* two separators
Chars == {"a", "Z", "7", ".", "_", "-", " ", "e'", "/", "\\"}
Allowed == {"a", "Z", "7", ".", "_", "-"}
Names == UNION {[1 .. n -> Chars] : n \in 0 .. MaxName}

\* path.basename on the server: trailing separators are dropped, then what follows
\* the last separator is kept
RECURSIVE StripTrailing(_)
StripTrailing(name) ==
    IF name # <<>> /\ name[Len(name)] = "/"
    THEN StripTrailing(SubSeq(name, 1, Len(name) - 1))
    ELSE name

RECURSIVE AfterLast(_, _)
AfterLast(name, k) ==
    IF k = 0 THEN name
    ELSE IF name[k] = "/" THEN SubSeq(name, k + 1, Len(name))
    ELSE AfterLast(name, k - 1)

Basename(name) == LET t == StripTrailing(name) IN AfterLast(t, Len(t))

\* a replacement that keeps every character
ReplacedNone(base) == base

\* base.replace(/[^a-zA-Z0-9._-]/g, "_")
Replaced(base) == [k \in 1 .. Len(base) |-> IF base[k] \in Allowed THEN base[k] ELSE "_"]

\* safeName: `${Date.now()}-${base}`
SafeName(name, stamp) == [stamp |-> stamp, base |-> Replaced(Basename(name))]

\* the body of a request to /api/upload: no "file" field, a string under it, or a
\* file with its name
Bodies == {[kind |-> "none"], [kind |-> "string"]}
              \cup {[kind |-> "file", name |-> n] : n \in Names}

\* POST of /api/upload on the server, stamp the clock: the answer and the files of
\* public/uploads after it
UploadRequest(body, writeOk) ==
    /\ Cardinality(disk) < MaxFiles
    /\ LET status == UploadPost(body.kind = "file", writeOk)
           name == SafeName(body.name, Cardinality(disk) + 1)
       IN /\ disk' = IF status = "ok" THEN disk \cup {name} ELSE disk
          /\ obs' = [Step(obs, "Upload") EXCEPT
                         !.answer = IF status = "ok"
                                    THEN [status |-> 200, dir |-> "/uploads/", name |-> name]
                                    ELSE [status |-> IF status = "400" THEN 400 ELSE 500],
                         !.body = body, !.before = <<disk>>]
    /\ UNCHANGED <<uploads, nodes, objMap, imported, history, pendingUndo,
                   draggedUploadId, dragRefs, arrowDown, carryVars, sideVars,
                   panelVars, store, mounted, cam>>

\* a response test that accepts every answer
ResOkAlways(resp) == TRUE

\* res.ok
ResOk(resp) == resp = "ok"

\* an update that replaces the list by the new entity
InsertedAlone(prev, ent) == <<ent>>

\* setUploads((prev) => [...prev, { id, name, url, position, scale }])
Inserted(prev, ent) == Append(prev, ent)

\* Import GLB onChange with its awaited upload call; resp is the answer of the
\* call, "network" when fetch rejects. On an ok answer the entity is created at the
\* vehicle's current position with scale 1
ImportCall(resp) ==
    /\ IF resp = "network"
       THEN /\ uploadStatus' = "Uploading..."
            /\ UNCHANGED <<uploads, nodes, objMap, store, imported>>
       ELSE IF ~ResOk(resp)
       THEN /\ uploadStatus' = "Upload failed"
            /\ UNCHANGED <<uploads, nodes, objMap, store, imported>>
       ELSE /\ imported < MaxAssets
            /\ imported' = imported + 1
            /\ Commit(Inserted(uploads, [id |-> imported + 1, position |-> agv.pos,
                                         scale |-> 1]),
                      nodes)
            /\ uploadStatus' = "Upload success"
    /\ obs' = Step(obs, IF resp = "ok" THEN "Other" ELSE "ImportFail")
    /\ UNCHANGED <<history, pendingUndo, draggedUploadId, dragRefs, arrowDown, carryVars,
                   sideVars, selectedPos, mounted, cam, disk>>

Import == ImportCall("ok")

\* prev.filter((p) => p.id !== u.id)
Remove(ups, id) == SelectSeq(ups, LAMBDA u : u.id # id)

\* a delete endpoint that answers with the error of a rejected unlink
DeletePostStrict(hasUrl, fileExists) ==
    IF ~hasUrl THEN "400" ELSE IF ~fileExists THEN "500" ELSE "ok"

\* POST of /api/delete: 400 without a url; unlink(filePath).catch(() => null), then ok
DeletePost(hasUrl, fileExists) == IF ~hasUrl THEN "400" ELSE "ok"

\* Hapus onClick of an asset in the list with its awaited delete call: reach is
\* "served" when the endpoint answers, "rejected" when fetch rejects, "pending" when
\* the call never resolves; fileExists tells whether unlink finds the file
DeleteCall(id, reach, fileExists) ==
    /\ HasId(uploads, id)
    /\ Commit(Remove(uploads, id), nodes)
    /\ draggedUploadId' = IF reach = "served" /\ draggedUploadId = id THEN NoId
                                                                     ELSE draggedUploadId
    /\ obs' = [Step(obs, "Other") EXCEPT
                   !.deleted = id, !.before = <<Before>>,
                   !.call = <<reach, fileExists,
                              IF reach = "served" THEN DeletePost(TRUE, fileExists)
                                                  ELSE reach>>]
    /\ UNCHANGED <<imported, history, pendingUndo, dragRefs, arrowDown, carryVars, sideVars,
                   panelVars, mounted, cam, disk>>

\* the delete call answered, the file removed
Delete(id) == DeleteCall(id, "served", TRUE)

\* ------------------------------------------------------------- DragMove
\* onKeyDown / onKeyUp of DragMove
KeyDownArrow ==
    /\ arrowDown' = TRUE
    /\ obs' = Step(obs, "Other")
    /\ UNCHANGED <<uploads, nodes, objMap, imported, history, pendingUndo,
                   draggedUploadId, dragRefs, carryVars, sideVars,
                   panelVars, store, mounted, cam, disk>>

KeyUpArrow ==
    /\ arrowDown' = FALSE
    /\ obs' = Step(obs, "Other")
    /\ UNCHANGED <<uploads, nodes, objMap, imported, history, pendingUndo,
                   draggedUploadId, dragRefs, carryVars, sideVars,
                   panelVars, store, mounted, cam, disk>>

\* the groups the ray can meet: those in the scene graph, also under the vehicle
\* (the walk up from the hit mesh meets the group's uploadId before agvRef.current)
Pickable == {i \in Ids : nodes[i].parent \in {"scene", "agv"}}

\* an offset that puts the origin of the asset under the pointer
GrabOffsetZero(wp, hit) == <<0, 0>>

\* dragOffsetRef at the pointer-down: wp - point on the plane through wp, zero when
\* the ray misses the plane
GrabOffset(wp, hit) == IF hit # None THEN <<wp[1] - hit[1], wp[3] - hit[2]>> ELSE <<0, 0>>

\* onPointerDown with its onPick; target is the uploadId the hit loop resolves, NoId
\* when no hit resolves to one
PointerDown(px, py, target) ==
    IF target # NoId
    THEN LET wp == WorldPos(target)
             hit == IntersectPlane(px, py)
         IN /\ obs.sessions < MaxSessions
            /\ dragY' = <<wp[2]>>
            /\ dragPos' = wp
            /\ lastPointer' = <<px, py>>
            /\ dragMode' = "null"
            /\ dragOffset' = GrabOffset(wp, hit)
            /\ draggedUploadId' = target
            /\ pendingUndo' = <<Snapshot(uploads)>>
            /\ selectedPos' = IF HasId(uploads, target) THEN PosOf(uploads, target)
                                                        ELSE selectedPos
            /\ dragging' = TRUE
            /\ obs' = [Step(obs, "Arm") EXCEPT !.sessions = @ + 1, !.sessPushes = 0,
                           !.moved = FALSE, !.firstMode = "null", !.lastMode = "null",
                           !.preDrag = <<uploads>>,
                           !.armCarried = target \in carriedIds,
                           !.grab = IF dragging THEN @
                                    ELSE <<target, pendingUndo', dragY', dragOffset'>>]
            /\ UNCHANGED <<uploads, nodes, objMap, imported, history, arrowDown, carryVars, sideVars,
                   uploadStatus, store, mounted, cam, disk>>
    ELSE /\ draggedUploadId' = NoId
         /\ selectedPos' = None
         /\ obs' = Step(obs, "Other")
         /\ UNCHANGED <<uploads, nodes, objMap, imported, history, pendingUndo, dragRefs,
                        arrowDown, carryVars, sideVars,
                   uploadStatus, store, mounted, cam, disk>>

\* a drop that records the list as it is at the drop
OnDropHistoryCurrent(pend, hist) == Append(hist, Snapshot(uploads))

\* onDrop of the Page: the history after it
OnDropHistory(pend, hist) == IF pend # None THEN Append(hist, pend[1]) ELSE hist

\* onPointerUp, registered for pointerup and for pointerleave
OnPointerUp ==
    /\ IF dragging
       THEN /\ history' = OnDropHistory(pendingUndo, history)
            /\ pendingUndo' = None
            /\ draggedUploadId' = NoId
            /\ obs' = [Step(obs, "Drop") EXCEPT
                           !.pushes = @ + (Len(history') - Len(history)),
                           !.sessPushes = @ + (Len(history') - Len(history)),
                           !.movedDrops = IF obs.moved THEN @ + 1 ELSE @,
                           !.bareDrops = IF obs.moved THEN @ ELSE @ + 1,
                           !.dropMoved = obs.moved,
                           !.moved = FALSE, !.firstMode = "null", !.lastMode = "null",
                           !.preDrag = None, !.grab = None,
                           !.shadow = IF obs.preDrag # None THEN Append(@, obs.preDrag[1])
                                                            ELSE @]
       ELSE /\ obs' = [Step(obs, "Idle") EXCEPT !.before = <<Before>>]
            /\ UNCHANGED <<history, pendingUndo, draggedUploadId>>
    /\ dragging' = FALSE
    /\ dragY' = None
    /\ dragPos' = None
    /\ lastPointer' = None
    /\ dragMode' = "null"
    /\ dragOffset' = None
    /\ UNCHANGED <<uploads, nodes, objMap, imported, arrowDown, carryVars, sideVars,
                   panelVars, store, mounted, cam, disk>>

PointerUp == OnPointerUp
PointerLeave == OnPointerUp

\* a move that pushes the pending snapshot on every pointer-move
OnMoveHistoryPush(hist, pend) == IF pend # None THEN Append(hist, pend[1]) ELSE hist

\* onMove of the Page leaves uploadHistoryRef alone
OnMoveHistory(hist, pend) == hist

\* onMove of the Page
OnMove(pos) ==
    IF draggedUploadId = NoId
    THEN UNCHANGED <<uploads, nodes, objMap, store, selectedPos>>
    ELSE /\ Commit(SetPosition(uploads, draggedUploadId, pos), nodes)
         /\ selectedPos' = pos

\* dragModeRef after the disambiguation of onPointerMove (dy > dx * 1.3)
ChooseMode(mode, arrow, dx, dy) ==
    IF mode = "null" /\ ~arrow
    THEN (IF 10 * Abs(dy) > 13 * Abs(dx) THEN "Y" ELSE "XZ")
    ELSE mode

\* the branch of onPointerMove that handles the move
Vertical(mode, arrow) == arrow \/ mode = "Y"

\* const groundY = agvPos[1]
groundY == agvPos[2]

\* a pointer-move that is handled whether or not a session is active
MoveEnabledAlways(drag) == TRUE

\* if (!draggingRef.current) return;
MoveEnabled(drag) == drag

\* onPointerMove with its onMove
PointerMove(px, py) ==
    IF ~MoveEnabled(dragging)
    THEN /\ obs' = [Step(obs, "IdleMove") EXCEPT !.before = <<Before>>]
         /\ UNCHANGED progVars
         /\ UNCHANGED sideVars
    ELSE
    /\ LET currentPos == IF dragPos # None THEN dragPos ELSE <<0, groundY, 0>>
           last == IF lastPointer # None THEN lastPointer ELSE <<px, py>>
           mode == ChooseMode(dragMode, arrowDown, px - last[1], py - last[2])
       IN /\ dragMode' = mode
          /\ lastPointer' = <<px, py>>
          /\ IF Vertical(mode, arrowDown)
             THEN LET next == <<currentPos[1], currentPos[2] - (py - last[2]),
                                currentPos[3]>>
                  IN /\ InArena(next)
                     /\ dragPos' = next
                     /\ OnMove(next)
             ELSE LET planeY == IF dragY # None THEN dragY[1] ELSE currentPos[2]
                      hit == IntersectPlane(px, py)
                      offset == IF dragOffset # None THEN dragOffset ELSE <<0, 0>>
                  IN IF hit # None
                     THEN LET next == <<hit[1] + offset[1], planeY, hit[2] + offset[2]>>
                          IN /\ InArena(next)
                             /\ dragPos' = next
                             /\ OnMove(next)
                     ELSE UNCHANGED <<dragPos, uploads, nodes, objMap, store,
                                      selectedPos>>
          /\ history' = OnMoveHistory(history, pendingUndo)
          /\ LET branch == IF Vertical(mode, arrowDown) THEN "Y" ELSE "XZ"
             IN obs' = [Step(obs, "Move") EXCEPT !.moved = TRUE, !.lastMode = branch,
                            !.firstMode = IF @ = "null" THEN branch ELSE @,
                            !.pushes = @ + (Len(history') - Len(history)),
                            !.sessPushes = @ + (Len(history') - Len(history)),
                            !.mv = IF HasId(uploads, draggedUploadId)
                                   THEN <<PosOf(uploads, draggedUploadId), py - last[2]>>
                                   ELSE None]
    /\ UNCHANGED <<imported, pendingUndo, draggedUploadId, dragging, dragY,
                   dragOffset, arrowDown, carryVars, sideVars,
                   uploadStatus, mounted, cam, disk>>

\* ----------------------------------------------------------------- undo
\* a stack read from the wrong end (Array.prototype.shift)
Shift(hist) ==
    IF hist = <<>> THEN [last |-> None, rest |-> hist]
    ELSE [last |-> <<hist[1]>>, rest |-> SubSeq(hist, 2, Len(hist))]

\* Array.prototype.pop: <<the last element>> and the rest, None from an empty array
Pop(hist) ==
    IF hist = <<>> THEN [last |-> None, rest |-> hist]
    ELSE [last |-> <<hist[Len(hist)]>>, rest |-> SubSeq(hist, 1, Len(hist) - 1)]

\* an undo that clears the list when the stack is empty (setUploads(last ?? []))
RestoredOrEmpty(last, ups) == IF last # None THEN last[1] ELSE <<>>

\* if (last) setUploads(last): the list after the undo
Restored(last, ups) == IF last # None THEN last[1] ELSE ups

\* onUndo (Ctrl+Z): uploadHistoryRef.current.pop(), then setUploads(last)
Undo ==
    /\ LET r == Pop(history)
       IN /\ history' = r.rest
          /\ Commit(Restored(r.last, uploads), nodes)
    /\ obs' = [Step(obs, "Undo") EXCEPT
                   !.afterDrop = (obs.op = "Drop"),
                   !.before = <<Before>>,
                   !.popped = IF obs.shadow # <<>> THEN <<obs.shadow[Len(obs.shadow)]>>
                                                   ELSE None,
                   !.shadow = IF @ # <<>> THEN SubSeq(@, 1, Len(@) - 1) ELSE @]
    /\ UNCHANGED <<imported, pendingUndo, draggedUploadId, dragRefs, arrowDown, carryVars, sideVars,
                   panelVars, mounted, cam, disk>>

\* -------------------------------------------------------------- vehicle
\* the poses sampled for the vehicle: a track along its initial heading, with one
\* short frame of travel past every cell but the first, facing ahead or to the left
OnTrack(p) ==
    /\ p[1] = 0
    /\ \E k \in 0 .. MaxRange, j \in {0, 1} : j <= k /\ p[3] = -(k * Cell + j * Nudge)
    /\ p[2] = 0

Headings == {0, 1}

\* the scene object a uuid names, as [parent, pos] with pos its world position: a
\* mesh of the environment, or the group of an imported asset while it is in the
\* scene graph; None when scene.getObjectByProperty finds nothing
ObjectByUuid(u, nd, vehicle) ==
    IF u \in Meshes THEN <<[parent |-> "scene", pos |-> MeshPos(u)]>>
    ELSE IF u = agvUuid THEN <<[parent |-> "scene", pos |-> vehicle.pos]>>
    ELSE IF u \in UploadUuids /\ nd[UploadOf(u)].parent \in {"scene", "agv"}
         THEN <<[parent |-> nd[UploadOf(u)].parent,
                 pos |-> WorldOf(nd[UploadOf(u)], vehicle)]>>
         ELSE None

\* canPick of PickupBox.useFrame: the vehicle's z within zRange = pickupZ -+ 2 and
\* its x within pickRadius of the trigger centre, the hovered object or else the box
CanPick(b, vehicle, nd, target, pz) ==
    IF b.carried THEN FALSE
    ELSE LET hov == IF target # NoId THEN ObjectByUuid(target, nd, vehicle) ELSE None
             trig == IF hov # None THEN hov[1].pos ELSE <<boxX, 0, pz>>
         IN /\ vehicle.pos[3] >= pz - pickRadius /\ vehicle.pos[3] <= pz + pickRadius
            /\ Abs(vehicle.pos[1] - trig[1]) <= pickRadius

\* ------------------------------------------------------------ CameraRig
Max(a, b) == IF a >= b THEN a ELSE b

\* camera.position.lerp(v, alpha) on the height, alpha = num / den
Lerp(y, v, num, den) == y + ((v - y) * num) \div den

\* v.y = Math.max(v.y, groundY + 0.2), heights above the ground
Clamp(y) == Max(y, MinCameraY)

\* useFrame of CameraRig on the camera's height.  ORBIT leaves the height to
\* OrbitControls; FOLLOW moves it towards the vehicle's height plus followHeight,
\* FPV towards the height of the fpv node, each target clamped and approached by
\* 1 - 0.001^dt (a half in a long frame, an eighth in a short one) and by
\* 1 - 0.0001^dt (three fifths and a seventh).
CameraRig(c, vehicle, long) ==
    IF c.mode = "FOLLOW"
    THEN [c EXCEPT !.y = Lerp(@, Clamp(vehicle.pos[2] + followHeight),
                              1, IF long THEN 2 ELSE 8)]
    ELSE IF c.mode = "FPV"
    THEN [c EXCEPT !.y = Lerp(@, Clamp(vehicle.pos[2] + fpvHeight),
                              IF long THEN 3 ELSE 1, IF long THEN 5 ELSE 7)]
    ELSE c

\* Digit1, Digit2, Digit3: setCamMode
SetCamMode(m) ==
    /\ m # cam.mode
    /\ cam' = [cam EXCEPT !.mode = m]
    /\ obs' = Step(obs, "Other")
    /\ UNCHANGED <<uploads, nodes, objMap, imported, history, pendingUndo,
                   draggedUploadId, dragRefs, arrowDown, carryVars, sideVars,
                   panelVars, store, mounted, disk>>

\* OrbitControls, mounted in ORBIT mode only, puts the camera at height y
Orbit(y) ==
    /\ cam.mode = "ORBIT"
    /\ y # cam.y
    /\ cam' = [cam EXCEPT !.y = y]
    /\ obs' = Step(obs, "Other")
    /\ UNCHANGED <<uploads, nodes, objMap, imported, history, pendingUndo,
                   draggedUploadId, dragRefs, arrowDown, carryVars, sideVars,
                   panelVars, store, mounted, disk>>

\* One animation frame: useFrame of AGV, of PickupBox and of AGVTelemetry.  f and r are
\* the key differences W-S and D-A.  A long frame (dt >= 0.1) covers a cell or a
\* quarter turn and is always sampled; a short frame covers Nudge and is sampled
\* when acc reaches the threshold, which the second short frame does.
Tick(f, r, long) ==
    /\ long \/ r = 0
    /\ LET yaw == (agv.yaw - r) % 4
           dir == RotY(yaw, <<0, 0, -1>>)
           len == f * (IF long THEN Cell ELSE Nudge)
           pos == VAdd(agv.pos, <<len * dir[1], len * dir[2], len * dir[3]>>)
           sample == long \/ acc = 1
       IN /\ OnTrack(pos)
          /\ yaw \in Headings
          /\ agv' = [pos |-> pos, yaw |-> yaw]
          /\ acc' = IF sample THEN 0 ELSE 1
          /\ agvPos' = IF sample THEN pos ELSE agvPos
          /\ box' = [box EXCEPT !.canPick = CanPick(box, agv', nodes, hoveredMesh, pickupZ)]
          /\ cam' = CameraRig(cam, agv', long)
          /\ obs' = [Step(obs, "Other") EXCEPT
                         !.att = IF agv' = agv THEN @ ELSE NoInfo]
    /\ UNCHANGED <<uploads, nodes, objMap, imported, history, pendingUndo,
                   draggedUploadId, dragRefs, arrowDown, attachRules, carriedIds,
                   selectedUploadIds, groupVars, hoverVars, clones,
                   panelVars, store, mounted, disk>>

\* ---------------------------------------------------------- attach rules
\* the checkbox of an upload in the Uploads column
ToggleSelect(id) ==
    /\ HasId(uploads, id)
    /\ selectedUploadIds' =
           IF \E k \in 1 .. Len(selectedUploadIds) : selectedUploadIds[k] = id
           THEN SelectSeq(selectedUploadIds, LAMBDA x : x # id)
           ELSE Append(selectedUploadIds, id)
    /\ obs' = Step(obs, "Other")
    /\ UNCHANGED <<uploads, nodes, objMap, imported, history, pendingUndo,
                   draggedUploadId, dragRefs, arrowDown, agv, agvPos, acc, attachRules,
                   carriedIds, sideVars,
                   panelVars, store, mounted, cam, disk>>

RuleIndex(rules, id) ==
    IF \E k \in 1 .. Len(rules) : rules[k].id = id
    THEN CHOOSE k \in 1 .. Len(rules) : rules[k].id = id
    ELSE 0

\* a merge that appends every new rule
MapSetAppend(rules, r) == Append(rules, r)

\* map.set(r.id, r) on a Map built from the previous rules: a known id keeps its
\* place and takes the new rule, a new id goes to the end
MapSet(rules, r) ==
    IF RuleIndex(rules, r.id) # 0
    THEN [rules EXCEPT ![RuleIndex(rules, r.id)] = r]
    ELSE Append(rules, r)

RECURSIVE MapSetAll(_, _)
MapSetAll(rules, new) ==
    IF new = <<>> THEN rules ELSE MapSetAll(MapSet(rules, new[1]), Tail(new))

\* the rules Add Rule builds from the selection: offset = world - agvPos
NewRules(sel) ==
    LET known == SelectSeq(sel, LAMBDA id : id \in objMap)
    IN [k \in 1 .. Len(known) |->
           [id |-> known[k], offset |-> VSub(WorldPos(known[k]), agvPos)]]

\* offsets kept within the sampled part of the world
OffsetInRange(o) == Abs(o[1]) <= Nudge /\ Abs(o[3]) <= Nudge

\* Add Rule onClick
AddRule ==
    /\ NewRules(selectedUploadIds) # <<>>
    /\ \A k \in 1 .. Len(NewRules(selectedUploadIds)) :
           OffsetInRange(NewRules(selectedUploadIds)[k].offset)
    /\ obs.ruleDefs < MaxRuleDefs
    /\ attachRules' = MapSetAll(attachRules, NewRules(selectedUploadIds))
    /\ obs' = [Step(obs, "Other") EXCEPT !.ruleDefs = @ + 1, !.before = <<Before>>,
                                        !.defined = <<NewRules(selectedUploadIds)>>]
    /\ UNCHANGED <<uploads, nodes, objMap, imported, history, pendingUndo,
                   draggedUploadId, dragRefs, arrowDown, agv, agvPos, acc, carriedIds,
                   selectedUploadIds, sideVars,
                   panelVars, store, mounted, cam, disk>>

\* Clear Rules onClick
ClearRules ==
    /\ attachRules' = <<>>
    /\ obs' = Step(obs, "Other")
    /\ UNCHANGED <<uploads, nodes, objMap, imported, history, pendingUndo,
                   draggedUploadId, dragRefs, arrowDown, agv, agvPos, acc, carriedIds,
                   selectedUploadIds, sideVars,
                   panelVars, store, mounted, cam, disk>>

\* --------------------------------------------------------- attach toggle
\* dist <= pickRadius, dist the XZ distance from the sampled vehicle position
Near(world, vpos) ==
    (world[1] - vpos[1]) * (world[1] - vpos[1])
      + (world[3] - vpos[3]) * (world[3] - vpos[3]) <= pickRadius * pickRadius

\* a detach that moves the group to the scene without converting its position
DetachLocal(n, vehicle) == [parent |-> "scene", pos |-> n.pos]

\* sceneRef.current.attach(obj): the group goes to the scene and keeps its world
\* position
Detach(n, vehicle) == [parent |-> "scene", pos |-> WorldOf(n, vehicle)]

\* an attach that keeps the group where it is (agv.attach(obj), no offset applied)
AttachInPlace(rule, n, vehicle) ==
    [parent |-> "agv",
     pos |-> RotY((4 - vehicle.yaw) % 4, VSub(WorldOf(n, vehicle), vehicle.pos))]

\* agv.add(obj); obj.position.set(rule.offset)
Attach(rule, n, vehicle) == [parent |-> "agv", pos |-> rule.offset]

\* the attach branch of the loop body, on st = [carried, nd, ups]
TryAttach(rule, st) ==
    IF ~Near(WorldOf(st.nd[rule.id], agv), agvPos)
    THEN st
    ELSE LET n == Attach(rule, st.nd[rule.id], agv)
         IN [carried |-> st.carried \cup {rule.id},
             nd |-> [st.nd EXCEPT ![rule.id] = n],
             ups |-> SetPosition(st.ups, rule.id, n.pos)]

\* the detach branch of the loop body
DoDetach(rule, st) ==
    LET n == Detach(st.nd[rule.id], agv)
    IN [carried |-> st.carried \ {rule.id},
        nd |-> [st.nd EXCEPT ![rule.id] = n],
        ups |-> SetPosition(st.ups, rule.id, n.pos)]

\* a loop body whose detach branch lacks its continue
ToggleRuleFallThrough(rule, st) ==
    IF rule.id \notin objMap THEN st
    ELSE IF rule.id \in st.carried THEN TryAttach(rule, DoDetach(rule, st))
    ELSE TryAttach(rule, st)

\* the body of for (const rule of attachRules)
ToggleRule(rule, st) ==
    IF rule.id \notin objMap THEN st
    ELSE IF rule.id \in st.carried THEN DoDetach(rule, st)
    ELSE TryAttach(rule, st)

RECURSIVE ToggleAll(_, _)
ToggleAll(rules, st) ==
    IF rules = <<>> THEN st ELSE ToggleAll(Tail(rules), ToggleRule(rules[1], st))

\* a toggle that drops the rule of every asset it puts down
RulesAfterToggleDrop(rules, before, after) ==
    SelectSeq(rules, LAMBDA r : ~(r.id \in before /\ r.id \notin after))

\* the toggle never calls setAttachRules
RulesAfterToggle(rules, before, after) == rules

\* onKey of the Page for KeyQ: the setCarriedIds updater and the setUploads calls
\* it makes
PageKeyQ ==
    /\ obs.toggles < MaxToggles
    /\ LET st == ToggleAll(attachRules, [carried |-> carriedIds, nd |-> nodes,
                                         ups |-> uploads])
       IN /\ carriedIds' = st.carried
          /\ Commit(st.ups, st.nd)
          /\ obs' = [Step(obs, "Toggle") EXCEPT
                         !.toggles = @ + 1,
                         !.before = <<Before>>,
                         !.att = [i \in Ids |->
                                    IF i \in st.carried \ carriedIds
                                    THEN <<WorldPos(i),
                                           attachRules[RuleIndex(attachRules, i)].offset>>
                                    ELSE IF i \in st.carried THEN @[i] ELSE None],
                         !.hold = [i \in Ids |->
                                    IF i \in st.carried \ carriedIds
                                    THEN <<attachRules[RuleIndex(attachRules, i)].offset>>
                                    ELSE IF i \in st.carried THEN @[i] ELSE None],
                         !.rt = [i \in Ids |->
                                    IF i \in carriedIds \ st.carried THEN obs.att[i]
                                    ELSE None]]
          /\ attachRules' = RulesAfterToggle(attachRules, carriedIds, st.carried)
    /\ UNCHANGED <<imported, history, pendingUndo, draggedUploadId, dragRefs, arrowDown,
                   agv, agvPos, acc, selectedUploadIds, groupVars, hoverVars,
                   panelVars, mounted, cam, disk>>

\* KeyQ where the PickupBox has nothing to pick up or to put down
Toggle == PageKeyQ /\ ~box.carried /\ ~box.canPick /\ UNCHANGED pickupVars

\* KeyQ of PickupBox, nd the groups as its listener finds them: a copy of the pick
\* target is hung on the vehicle, or the copy it holds is put down in the scene
PickupOnKey(nd) ==
    IF ~box.carried /\ box.canPick
    THEN LET hov == IF hoveredMesh # NoId THEN ObjectByUuid(hoveredMesh, nd, agv) ELSE None
             \* resolvePickTarget: a child of the scene is its own target, a child
             \* of the unnamed vehicle group resolves to the vehicle
             pickTarget == IF hov = None THEN boxUuid
                           ELSE IF hov[1].parent = "agv" THEN agvUuid ELSE hoveredMesh
         IN IF pickTarget = agvUuid
            THEN UNCHANGED <<box, clones>>
            ELSE /\ clones' = Append(clones, [of |-> pickTarget, parent |-> "agv"])
                 /\ box' = [box EXCEPT !.carried = TRUE, !.carriedRef = Len(clones) + 1]
    ELSE IF box.carried
         THEN /\ clones' = IF box.carriedRef # 0
                            THEN [clones EXCEPT ![box.carriedRef].parent = "scene"]
                            ELSE clones
              /\ box' = [box EXCEPT !.carried = FALSE, !.carriedRef = 0]
         ELSE UNCHANGED <<box, clones>>

\* the KeyQ key: the listener of the Page and the listener of PickupBox, in the
\* order their effects last registered them
KeyQ ==
    \E pageFirst \in BOOLEAN :
        /\ PageKeyQ
        /\ PickupOnKey(IF pageFirst THEN nodes' ELSE nodes)

\* ------------------------------------------------------------ MeshPicker
\* isDescendantOf(obj, agvRef.current) for a mesh the ray meets
InVehicle(obj, nd) ==
    \/ obj = bodyMesh
    \/ \E i \in Ids : obj = MeshOf(i) /\ nd[i].parent = "agv"

\* the meshes of the scene graph: raycaster.intersectObjects(scene.children, true)
\* can return any of them
HitObjects(nd) ==
    Meshes \cup {bodyMesh} \cup {MeshOf(i) : i \in {j \in Ids : nd[j].parent \in {"scene", "agv"}}}

\* findSelectable: the ancestor of the mesh that is a child of the scene
FindSelectable(obj, nd) ==
    IF obj \in Meshes THEN envRoot
    ELSE IF InVehicle(obj, nd) THEN agvUuid
    ELSE UuidOf(obj - 30)

\* maxDim > 30 of the selectable: the environment is larger than 30 units, the
\* vehicle and the imported assets are not
MaxDimOver30(sel) == sel = envRoot

\* Number.POSITIVE_INFINITY, above every volume of the model
Infinity == MaxVol + 1

\* a volume that leaves a degenerate box at zero
VolumeRaw(v) == v

\* size.x * size.y * size.z || Number.POSITIVE_INFINITY
Volume(v) == IF v = 0 THEN Infinity ELSE v

\* the loop over the hits from the k-th on: best is <<mesh>> or None
RECURSIVE BestFrom(_, _, _, _, _)
BestFrom(hs, k, best, bestVolume, nd) ==
    IF k > Len(hs) THEN best
    ELSE IF InVehicle(hs[k].obj, nd) THEN BestFrom(hs, k + 1, best, bestVolume, nd)
    ELSE IF Volume(hs[k].vol) < bestVolume
         THEN BestFrom(hs, k + 1, <<hs[k].obj>>, Volume(hs[k].vol), nd)
         ELSE BestFrom(hs, k + 1, best, bestVolume, nd)

\* const hit = best ?? hits[0].object, for a non-empty list of hits
PickHit(hs, nd) ==
    LET best == BestFrom(hs, 1, None, Infinity, nd)
    IN IF best # None THEN best[1] ELSE hs[1].obj

\* the node onPointerMove reports for the hits, NoId for no hit
PickTarget(hs, nd) ==
    IF hs = <<>> THEN NoId
    ELSE LET hit == PickHit(hs, nd)
             selectable == FindSelectable(hit, nd)
         IN IF MaxDimOver30(selectable) THEN hit ELSE selectable

\* what onPointerMove can report: the environment's mesh, an imported asset that
\* stands in the scene, or the vehicle (the fallback to hits[0] when no hit outside
\* the vehicle has a volume)
HoverTargets ==
    Meshes \cup {UuidOf(i) : i \in {j \in Ids : nodes[j].parent = "scene"}} \cup {agvUuid}

\* the report of onPointerMove of MeshPicker with the onHover of the Page; target
\* NoId: no hit; ray is <<the hits, the hit chosen>> when the hits are given
HoverReport(target, ray) ==
    /\ IF target # hoveredMesh
       THEN /\ hoveredMesh' = target
            /\ hoverUploadId' = IF target \in UploadUuids THEN UploadOf(target) ELSE NoId
            /\ pickupZ' = IF target # NoId THEN ObjectByUuid(target, nodes, agv)[1].pos[3]
                                           ELSE pickupZ
       ELSE UNCHANGED hoverVars
    /\ obs' = [Step(obs, "Other") EXCEPT !.ray = ray]
    /\ UNCHANGED <<uploads, nodes, objMap, imported, history, pendingUndo,
                   draggedUploadId, dragRefs, arrowDown, carryVars, groupVars, pickupVars,
                   panelVars, store, mounted, cam, disk>>

Hover(target) == target # hoveredMesh /\ HoverReport(target, None)

\* onPointerMove of MeshPicker for the hits hs of the ray, nearest first
HoverRay(hs) ==
    HoverReport(PickTarget(hs, nodes), IF hs = <<>> THEN None ELSE <<hs, PickHit(hs, nodes)>>)

\* the lists of at most MaxHits hits on distinct meshes, with their volumes
HitLists(nd) ==
    LET H == [obj : HitObjects(nd), vol : 0 .. MaxVol]
    IN {hs \in UNION {[1 .. n -> H] : n \in 0 .. MaxHits} :
           \A j, k \in 1 .. Len(hs) : j # k => hs[j].obj # hs[k].obj}

\* Use Hovered onClick
UseHovered ==
    /\ hoverUploadId # NoId
    /\ \A k \in 1 .. Len(selectedUploadIds) : selectedUploadIds[k] # hoverUploadId
    /\ selectedUploadIds' = Append(selectedUploadIds, hoverUploadId)
    /\ obs' = Step(obs, "Other")
    /\ UNCHANGED <<uploads, nodes, objMap, imported, history, pendingUndo,
                   draggedUploadId, dragRefs, arrowDown, agv, agvPos, acc, attachRules,
                   carriedIds, sideVars,
                   panelVars, store, mounted, cam, disk>>

\* ------------------------------------------------------------ visibility
\* sceneRef.current.getObjectByProperty("uuid", u) finds an object
Found(u) == ObjectByUuid(u, nodes, agv) # None

InSeq(seq, x) == \E k \in 1 .. Len(seq) : seq[k] = x

\* an effect that flips the flag of every listed object
ApplyHiddenFlip(ledger, vis) ==
    [u \in Uuids |-> IF InSeq(ledger, u) /\ Found(u) THEN ~vis[u] ELSE vis[u]]

\* the hiddenUuids effect: obj.visible = false for every listed uuid that is found
ApplyHidden(ledger, vis) ==
    [u \in Uuids |-> IF InSeq(ledger, u) /\ Found(u) THEN FALSE ELSE vis[u]]

\* the uuid of the object a group item names, NoId when none is found
Resolve(item) ==
    IF item.kind = "upload"
    THEN (IF item.id \in objMap THEN UuidOf(item.id) ELSE NoId)
    ELSE (IF Found(item.id) THEN item.id ELSE NoId)

RECURSIVE ApplyItems(_, _, _)
ApplyItems(items, hidden, vis) ==
    IF items = <<>> THEN vis
    ELSE LET u == Resolve(items[1])
         IN ApplyItems(Tail(items), hidden,
                       IF u # NoId THEN [vis EXCEPT ![u] = ~hidden] ELSE vis)

\* the groups effect: obj.visible = !g.hidden for every item of every group, in order
RECURSIVE ApplyGroups(_, _)
ApplyGroups(gs, vis) ==
    IF gs = <<>> THEN vis
    ELSE ApplyGroups(Tail(gs), ApplyItems(gs[1].items, gs[1].hidden, vis))

\* Delete / KeyX on the hovered object
HideHovered ==
    /\ hoveredMesh # NoId
    /\ Found(hoveredMesh)
    /\ hiddenUuids' = IF InSeq(hiddenUuids, hoveredMesh) THEN hiddenUuids
                      ELSE Append(hiddenUuids, hoveredMesh)
    /\ visible' = LET v == [visible EXCEPT ![hoveredMesh] = FALSE]
                  IN IF hiddenUuids' # hiddenUuids THEN ApplyHidden(hiddenUuids', v) ELSE v
    /\ store' = [store EXCEPT !.hidden = <<hiddenUuids'>>]
    /\ obs' = Step(obs, "Other")
    /\ UNCHANGED <<uploads, nodes, objMap, imported, history, pendingUndo,
                   draggedUploadId, dragRefs, arrowDown, carryVars, groups, groupSeq,
                   selectedGroupId, hoverVars, pickupVars,
                   panelVars, mounted, cam, disk>>

\* Restore Hidden Objects onClick
RestoreHidden ==
    /\ hiddenUuids # <<>>
    /\ visible' = [u \in Uuids |->
                      IF InSeq(hiddenUuids, u) /\ Found(u) THEN TRUE ELSE visible[u]]
    /\ hiddenUuids' = <<>>
    /\ store' = [store EXCEPT !.hidden = <<hiddenUuids'>>]
    /\ obs' = Step(obs, "Other")
    /\ UNCHANGED <<uploads, nodes, objMap, imported, history, pendingUndo,
                   draggedUploadId, dragRefs, arrowDown, carryVars, groups, groupSeq,
                   selectedGroupId, hoverVars, pickupVars,
                   panelVars, mounted, cam, disk>>

\* ------------------------------------------------------------ page load
\* The page is closed and opened again: every state and ref of the Page starts from
\* its initial value over a fresh scene graph, localStorage is what the previous
\* session left, and the clock behind the ids goes on.
Reload ==
    /\ mounted
    /\ obs.reloads < MaxReloads
    /\ uploads' = <<>>
    /\ nodes' = [i \in Ids |-> [parent |-> "none", pos |-> <<0, 0, 0>>]]
    /\ objMap' = {}
    /\ history' = <<>>
    /\ pendingUndo' = None
    /\ draggedUploadId' = NoId
    /\ dragging' = FALSE
    /\ dragY' = None
    /\ dragPos' = None
    /\ lastPointer' = None
    /\ dragMode' = "null"
    /\ dragOffset' = None
    /\ arrowDown' = FALSE
    /\ agv' = [pos |-> initialAgvPos, yaw |-> 0]
    /\ agvPos' = initialAgvPos
    /\ acc' = 0
    /\ attachRules' = <<>>
    /\ carriedIds' = {}
    /\ selectedUploadIds' = <<>>
    /\ groups' = <<>>
    /\ selectedGroupId' = NoId
    /\ hiddenUuids' = <<>>
    /\ visible' = [u \in Uuids |-> TRUE]
    /\ hoveredMesh' = NoId
    /\ hoverUploadId' = NoId
    /\ pickupZ' = initialPickupZ
    /\ box' = [carried |-> FALSE, canPick |-> FALSE, carriedRef |-> 0]
    /\ clones' = <<>>
    /\ selectedPos' = None
    /\ uploadStatus' = ""
    /\ mounted' = FALSE
    /\ cam' = [mode |-> "ORBIT", y |-> initialCameraY]
    /\ obs' = [Step(obs, "Reload") EXCEPT !.prev = <<store>>, !.reloads = @ + 1]
    /\ UNCHANGED <<store, imported, groupSeq, disk>>

\* JSON.parse of a stored value; an absent key reads as nothing to load
Parsed(raw) == IF raw = None THEN <<>> ELSE raw[1]

\* The mount effects of the Page and the re-render they cause.  ready: sceneRef is
\* set when the effects run.  The load effect of the hidden ids makes the listed
\* objects visible, removes the key and empties the ledger; every save effect first
\* writes the initial value and writes again after the re-render with the loaded
\* one; the groups effect finds the groups of the loaded assets not yet in
\* uploadObjectMapRef.
Load ==
    /\ ~mounted
    /\ \E ready \in BOOLEAN :
           LET H == Parsed(store.hidden)
               U == Parsed(store.uploads)
               G == Parsed(store.groups)
               shown == IF H # <<>> /\ ready
                        THEN [u \in Uuids |->
                                 IF InSeq(H, u) /\ Found(u) THEN TRUE ELSE visible[u]]
                        ELSE visible
           IN /\ hiddenUuids' = <<>>
              /\ uploads' = IF U # <<>> THEN U ELSE uploads
              /\ nodes' = Render(uploads, uploads', nodes)
              /\ objMap' = Ready(uploads', objMap)
              /\ groups' = IF G # <<>> THEN G ELSE groups
              /\ visible' = LET v == IF ready THEN ApplyGroups(groups', shown) ELSE shown
                            IN IF ready THEN ApplyHidden(hiddenUuids', v) ELSE v
              /\ store' = [uploads |-> <<uploads'>>, groups |-> <<groups'>>,
                           hidden |-> <<hiddenUuids'>>]
    /\ mounted' = TRUE
    /\ obs' = Step(obs, "Load")
    /\ UNCHANGED <<imported, history, pendingUndo, draggedUploadId, dragRefs, arrowDown,
                   carryVars, groupSeq, selectedGroupId, hoverVars, pickupVars, panelVars,
                   cam, disk>>

\* --------------------------------------------------------- Group Manager
\* setGroups(new) and the groups effect it causes
SetGroups(new) ==
    /\ groups' = new
    /\ store' = [store EXCEPT !.groups = <<new>>]
    /\ visible' = ApplyGroups(new, visible)

groupFrame == <<uploads, nodes, objMap, imported, history, pendingUndo, draggedUploadId,
                dragRefs, arrowDown, carryVars, hiddenUuids, hoverVars, pickupVars,
                panelVars, mounted, cam, disk>>

\* Create Group onClick
CreateGroup ==
    /\ groupSeq < MaxGroups
    /\ groupSeq' = groupSeq + 1
    /\ SetGroups(Append(groups, [id |-> groupSeq + 1, hidden |-> FALSE, items |-> <<>>]))
    /\ obs' = Step(obs, "Other")
    /\ UNCHANGED <<groupFrame, selectedGroupId>>

\* Select onClick of a listed group
SelectGroup(k) ==
    /\ k \in 1 .. Len(groups)
    /\ selectedGroupId' = groups[k].id
    /\ obs' = Step(obs, "Other")
    /\ UNCHANGED <<groupFrame, groups, groupSeq, visible, store>>

\* a membership test that never finds the id
HasItemNever(items, id) == FALSE

\* g.items.some((i) => i.id === id)
HasItem(items, id) == \E k \in 1 .. Len(items) : items[k].id = id

\* the updater of Add Hovered (Scene) and Add Hovered (Upload)
AddItem(gs, gid, kind, id) ==
    [k \in 1 .. Len(gs) |->
        IF gs[k].id # gid THEN gs[k]
        ELSE IF HasItem(gs[k].items, id) THEN gs[k]
        ELSE [gs[k] EXCEPT !.items = Append(@, [kind |-> kind, id |-> id])]]

\* the selected group already lists the id
Listed(id) ==
    \E k \in 1 .. Len(groups) :
        groups[k].id = selectedGroupId /\ \E j \in 1 .. Len(groups[k].items) :
                                              groups[k].items[j].id = id

\* Add Hovered (Scene) onClick
AddHoveredScene ==
    /\ selectedGroupId # NoId
    /\ hoveredMesh # NoId
    /\ SetGroups(AddItem(groups, selectedGroupId, "uuid", hoveredMesh))
    /\ obs' = [Step(obs, "Other") EXCEPT !.readd = Listed(hoveredMesh)]
    /\ UNCHANGED <<groupFrame, groupSeq, selectedGroupId>>

\* Add Hovered (Upload) onClick
AddHoveredUpload ==
    /\ selectedGroupId # NoId
    /\ hoverUploadId # NoId
    /\ SetGroups(AddItem(groups, selectedGroupId, "upload", hoverUploadId))
    /\ obs' = [Step(obs, "Other") EXCEPT !.readd = Listed(hoverUploadId)]
    /\ UNCHANGED <<groupFrame, groupSeq, selectedGroupId>>

\* the updater of Add Selected Uploads: existing is read once, before the pushes
AddSelected(gs, gid, sel) ==
    [k \in 1 .. Len(gs) |->
        IF gs[k].id # gid THEN gs[k]
        ELSE LET new == SelectSeq(sel, LAMBDA id : ~HasItem(gs[k].items, id))
             IN [gs[k] EXCEPT !.items =
                     @ \o [j \in 1 .. Len(new) |-> [kind |-> "upload", id |-> new[j]]]]]

\* Add Selected Uploads onClick
AddSelectedUploads ==
    /\ selectedGroupId # NoId
    /\ selectedUploadIds # <<>>
    /\ SetGroups(AddSelected(groups, selectedGroupId, selectedUploadIds))
    /\ obs' = [Step(obs, "Other") EXCEPT
                   !.readd = \E j \in 1 .. Len(selectedUploadIds) :
                                 Listed(selectedUploadIds[j])]
    /\ UNCHANGED <<groupFrame, groupSeq, selectedGroupId>>

\* Show / Hide onClick of a listed group
ToggleGroupHidden(k) ==
    /\ k \in 1 .. Len(groups)
    /\ SetGroups([j \in 1 .. Len(groups) |->
                     IF groups[j].id = groups[k].id
                     THEN [groups[j] EXCEPT !.hidden = ~@] ELSE groups[j]])
    /\ obs' = Step(obs, "Other")
    /\ UNCHANGED <<groupFrame, groupSeq, selectedGroupId>>

\* Delete Group onClick of a listed group
DeleteGroup(k) ==
    /\ k \in 1 .. Len(groups)
    /\ SetGroups(SelectSeq(groups, LAMBDA g : g.id # groups[k].id))
    /\ obs' = Step(obs, "Other")
    /\ UNCHANGED <<groupFrame, groupSeq, selectedGroupId>>

\* ------------------------------------------------------------ specifications
NextDrag ==
    \/ Import
    \/ KeyDownArrow
    \/ KeyUpArrow
    \/ \E px \in PointerXs, py \in PointerYs, t \in Pickable \cup {NoId} :
           PointerDown(px, py, t)
    \/ \E px \in PointerXs, py \in PointerYs : PointerMove(px, py)
    \/ PointerUp
    \/ PointerLeave
    \/ Undo

SpecDrag == Init /\ [][NextDrag]_vars

NextAttach ==
    \/ Import
    \/ \E f \in {-1, 0, 1}, r \in {-1, 0, 1}, long \in BOOLEAN : Tick(f, r, long)
    \/ \E id \in Ids : ToggleSelect(id)
    \/ AddRule
    \/ Toggle

SpecAttach == Init /\ [][NextAttach]_vars

\* one imported asset with its rule, carried by the vehicle, dragged and restored
NextCarry ==
    \/ (imported = 0 /\ Import)
    \/ \E id \in Ids : ToggleSelect(id)
    \/ AddRule
    \/ Toggle
    \/ \E f \in {0, 1} : Tick(f, 0, TRUE)
    \/ \E py \in PointerYs, t \in Pickable \cup {NoId} : PointerDown(0, py, t)
    \/ \E py \in PointerYs : PointerMove(0, py)
    \/ PointerUp
    \/ Undo

SpecCarry == Init /\ [][NextCarry]_vars

\* imported assets and their rules, defined, cleared, toggled and deleted
NextRules ==
    \/ Import
    \/ \E id \in Ids : Delete(id)
    \/ \E id \in Ids : ToggleSelect(id)
    \/ AddRule
    \/ ClearRules
    \/ Toggle
    \/ \E f \in {0, 1}, long \in BOOLEAN : Tick(f, 0, long)

SpecRules == Init /\ [][NextRules]_vars

\* one imported asset and the environment's mesh, hovered, hidden and grouped; the
\* pointer stays off the vehicle
NextGroups ==
    \/ (imported = 0 /\ Import)
    \/ \E t \in (HoverTargets \ {agvUuid}) \cup {NoId} : Hover(t)
    \/ UseHovered
    \/ \E id \in Ids : ToggleSelect(id)
    \/ HideHovered
    \/ RestoreHidden
    \/ CreateGroup
    \/ \E k \in GroupIds : SelectGroup(k)
    \/ AddHoveredScene
    \/ AddHoveredUpload
    \/ AddSelectedUploads
    \/ \E k \in GroupIds : ToggleGroupHidden(k)
    \/ \E k \in GroupIds : DeleteGroup(k)

SpecGroups == Init /\ [][NextGroups]_vars

\* one imported asset, hovered, given a rule and picked up with KeyQ
NextPickup ==
    \/ (imported = 0 /\ Import)
    \/ \E t \in HoverTargets \cup {NoId} : Hover(t)
    \/ \E id \in Ids : ToggleSelect(id)
    \/ AddRule
    \/ \E f \in {0, 1}, long \in BOOLEAN : Tick(f, 0, long)
    \/ KeyQ

SpecPickup == Init /\ [][NextPickup]_vars

\* imports and deletes with every outcome of their calls
NextTransfer ==
    \/ \E net \in BOOLEAN, writeOk \in BOOLEAN :
           ImportCall(IF net THEN UploadPost(TRUE, writeOk) ELSE "network")
    \/ \E id \in Ids, reach \in {"served", "rejected", "pending"}, fileExists \in BOOLEAN :
           DeleteCall(id, reach, fileExists)
    \/ \E t \in Pickable : PointerDown(0, 1, t)
    \/ PointerUp
    \/ \E f \in {0, 1} : Tick(f, 0, TRUE)

SpecTransfer == Init /\ [][NextTransfer]_vars

\* the pointer over the scene with every list of hits
NextPick ==
    \/ Import
    \/ \E hs \in HitLists(nodes) : HoverRay(hs)
    \/ UseHovered

SpecPick == Init /\ [][NextPick]_vars

\* one session that hides, groups and deletes, then the page opened again and
\* loaded
FirstSession == mounted /\ obs.reloads = 0

NextLedger ==
    \/ (FirstSession /\ imported = 0 /\ Import)
    \/ (FirstSession /\ \E id \in Ids : Delete(id))
    \/ (FirstSession /\ \E t \in (HoverTargets \ {agvUuid}) \cup {NoId} : Hover(t))
    \/ (FirstSession /\ HideHovered)
    \/ (FirstSession /\ RestoreHidden)
    \/ (FirstSession /\ CreateGroup)
    \/ (FirstSession /\ \E k \in GroupIds : SelectGroup(k))
    \/ (FirstSession /\ AddHoveredScene)
    \/ (FirstSession /\ AddHoveredUpload)
    \/ (FirstSession /\ \E k \in GroupIds : ToggleGroupHidden(k))
    \/ Reload
    \/ Load

SpecLedger == Init /\ [][NextLedger]_vars

\* the camera keys, the orbit controls and the frames of a driving vehicle
NextCamera ==
    \/ \E m \in CamModes : SetCamMode(m)
    \/ \E y \in CameraYs : Orbit(y)
    \/ \E f \in {-1, 0, 1}, long \in BOOLEAN : Tick(f, 0, long)

SpecCamera == Init /\ [][NextCamera]_vars

\* requests to the upload endpoint with every body
NextStore ==
    \E body \in Bodies, writeOk \in BOOLEAN : UploadRequest(body, writeOk)

SpecStore == Init /\ [][NextStore]_vars

\* ------------------------------------------------------------------ claims
\* C1: within one drag session, once a pointer-move has been handled in Vertical or
\* in Horizontal mode, every later pointer-move of the session is handled in the
\* same mode, whatever the deltas and the ArrowDown key do in between.
C1_ModeStable == obs.firstMode # "null" => obs.lastMode = obs.firstMode

\* C2: with only sessions that handled a pointer-move, the number of HistoryEntries
\* pushed equals the number of sessions dropped, and an Undo issued right after a
\* drop leaves the imported-asset list, and the position of every asset's group,
\* exactly as they were just before that session's pointer-down.
C2_DropOnce ==
    /\ obs.bareDrops = 0 => obs.pushes = obs.movedDrops
    /\ (obs.op = "Undo" /\ obs.afterDrop /\ obs.dropMoved) =>
           /\ obs.popped # None
           /\ uploads = obs.popped[1]
           /\ \A i \in Ids : HasId(uploads, i) => nodes[i].pos = PosOf(uploads, i)

C2_Witness ==
    /\ obs.op = "Undo" /\ obs.afterDrop /\ obs.dropMoved
    /\ obs.movedDrops = 2 /\ obs.bareDrops = 0
    /\ uploads # obs.before[1][1]

\* C3: a pointer-down that hits an asset followed by pointer-up or pointer-leave
\* with no pointer-move in between pushes no HistoryEntry.
C3_NoPushWithoutMove == (obs.op = "Drop" /\ ~obs.dropMoved) => obs.sessPushes = 0

\* C4: every armed session pushes at most one HistoryEntry, under any sequence of
\* pointer-move, pointer-up and pointer-leave events that follows the pointer-down.
C4_AtMostOnePush == obs.sessPushes <= 1

\* pointer-up ended the session and a pointer-leave (or second pointer-up) followed
C4_Witness == obs.op = "Idle" /\ obs.sessPushes = 1 /\ obs.dropMoved

\* C5: if a toggle attaches an asset and the next toggle detaches it, with the
\* vehicle not moving in between, the asset's world position after the detach
\* equals its world position just before the attach.
C5_RoundTrip == \A i \in Ids : obs.rt[i] # None => WorldPos(i) = obs.rt[i][1]

\* C5 as amended: after such an attach and detach the asset stands at the vehicle's
\* position plus the rule's stored offset, the offset turned with the vehicle; it
\* is back where it was before the attach exactly when it stood at that place.
C5_DetachAtOffset ==
    \A i \in Ids : obs.rt[i] # None =>
        /\ WorldPos(i) = VAdd(agv.pos, RotY(agv.yaw, obs.rt[i][2]))
        /\ (WorldPos(i) = obs.rt[i][1]) <=>
               (obs.rt[i][1] = VAdd(agv.pos, RotY(agv.yaw, obs.rt[i][2])))

\* a turned vehicle has put down, away from where it stood, an asset with a rule
\* whose offset is not zero
C5_Witness ==
    \E i \in Ids : /\ obs.rt[i] # None
                   /\ agv.yaw = 1
                   /\ obs.rt[i][2] # <<0, 0, 0>>
                   /\ WorldPos(i) # obs.rt[i][1]

\* C6: Undo with an empty history stack leaves the imported-asset list, the carried
\* set, the rules, the stack and the scene as they were.
C6_UndoEmptyNoOp == (obs.op = "Undo" /\ obs.before[1][4] = <<>>) => Before = obs.before[1]

C6_Witness == obs.op = "Undo" /\ obs.before[1][4] = <<>> /\ Len(uploads) = 2

\* C8: a toggle attaches a rule's asset that is not carried (parent the vehicle,
\* local position the rule's offset, id in the carried set) if and only if the XZ
\* distance between the asset's world position and the vehicle's position is at
\* most pickRadius; an asset farther away keeps its parent, transform and free state.
C8_AttachIffNear ==
    obs.op = "Toggle" =>
        LET b == obs.before[1]
        IN \A k \in 1 .. Len(b[3]) :
               LET id == b[3][k].id
               IN id \notin b[2] =>
                      IF Near(WorldOf(b[5][id], b[6]), b[6].pos)
                      THEN /\ id \in carriedIds
                           /\ nodes[id] = [parent |-> "agv", pos |-> b[3][k].offset]
                      ELSE /\ id \notin carriedIds
                           /\ nodes[id] = b[5][id]

\* C9: a toggle detaches every rule asset that was carried when it began: the id
\* has left the carried set and the group is back under the scene, whatever its
\* distance to the vehicle.
C9_CarriedDetached ==
    obs.op = "Toggle" =>
        LET b == obs.before[1]
        IN \A k \in 1 .. Len(b[3]) :
               b[3][k].id \in b[2] =>
                   /\ b[3][k].id \notin carriedIds
                   /\ nodes[b[3][k].id].parent = "scene"

\* a carried asset within pickRadius of the sampled vehicle position was put down
C9_Witness ==
    /\ obs.op = "Toggle"
    /\ \E k \in 1 .. Len(attachRules) :
           /\ attachRules[k].id \in obs.before[1][2]
           /\ attachRules[k].id \notin carriedIds
           /\ Near(WorldPos(attachRules[k].id), agvPos)

\* C10: the world position of an asset right after a toggle detached it equals its
\* world position right before that toggle, and the position recorded for it in
\* the imported-asset list is that world position.
C10_DetachKeepsWorld ==
    obs.op = "Toggle" =>
        LET b == obs.before[1]
        IN \A i \in b[2] \ carriedIds :
               /\ WorldPos(i) = WorldOf(b[5][i], b[6])
               /\ HasId(uploads, i)
               /\ PosOf(uploads, i) = WorldPos(i)

\* the detached asset hung on a turned vehicle at an offset that is not zero
C10_Witness ==
    /\ obs.op = "Toggle"
    /\ agv.yaw = 1
    /\ \E i \in obs.before[1][2] \ carriedIds :
           /\ obs.before[1][5][i].pos # <<0, 0, 0>>
           /\ WorldPos(i) # obs.before[1][5][i].pos

\* C7: the history is a LIFO stack of the pre-drag lists: it always holds the lists
\* of the dropped sessions not yet undone, oldest first, and an Undo with a
\* non-empty stack removes the newest entry alone and makes it the current list.
C7_Lifo ==
    /\ history = obs.shadow
    /\ (obs.op = "Undo" /\ obs.before[1][4] # <<>>) =>
           /\ obs.popped # None
           /\ uploads = obs.popped[1]
           /\ history = SubSeq(obs.before[1][4], 1, Len(obs.before[1][4]) - 1)

\* the second of two drops has been undone and the first entry, a different list,
\* is still on the stack
C7_Witness ==
    /\ obs.op = "Undo" /\ obs.pushes = 2 /\ Len(history) = 1
    /\ obs.popped # None /\ history[1] # obs.popped[1]

\* C16: while a drag session is active, a further pointer-down starts no other
\* session: the grabbed id, the pending pre-drag snapshot and the captured height
\* and offset stay those of the pointer-down that began the session.
C16_NoRearm ==
    (dragging /\ obs.grab # None) =>
        <<draggedUploadId, pendingUndo, dragY, dragOffset>> = obs.grab

\* C11: while an asset id is in the carried set, its group is a child of the
\* vehicle and its position relative to the vehicle is the offset its rule stored
\* when it was attached, after any interleaving of frames, pointer-down, pointer-move
\* and pointer-up events and undo commands.
C11_CarriedRigid ==
    \A i \in carriedIds :
        obs.hold[i] # None =>
            /\ nodes[i].parent = "agv"
            /\ nodes[i].pos = obs.hold[i][1]

\* C17: a pointer-down whose ray hits only nodes of the vehicle subtree, a carried
\* imported asset included, arms no drag session.
C17_NoArmOnCarried == obs.op = "Arm" => ~obs.armCarried

\* C13: a toggle never changes the rules: the rule list, ids and offsets, after a
\* KeyQ is the rule list before it, whether assets were attached, detached or skipped.
C13_ToggleKeepsRules == obs.op = "Toggle" => attachRules = obs.before[1][3]

\* the toggle put one asset down and left the other, out of reach, where it was
C13_Witness ==
    /\ obs.op = "Toggle"
    /\ Len(attachRules) = 2
    /\ \E i \in Ids : i \in obs.before[1][2] /\ i \notin carriedIds
    /\ \E i \in Ids : i \notin obs.before[1][2] /\ i \notin carriedIds

\* C14: the rule list holds at most one rule per asset id, and after an Add Rule
\* click the offset stored for every id it defined is the one that click computed.
C14_OneRulePerId ==
    /\ \A j, k \in 1 .. Len(attachRules) :
           attachRules[j].id = attachRules[k].id => j = k
    /\ obs.defined # None =>
           \A k \in 1 .. Len(obs.defined[1]) :
               /\ RuleIndex(attachRules, obs.defined[1][k].id) # 0
               /\ attachRules[RuleIndex(attachRules, obs.defined[1][k].id)].offset
                      = obs.defined[1][k].offset

\* a rule was defined again for an id, with another offset than the one it replaced
C14_Witness ==
    /\ obs.defined # None
    /\ \E k \in 1 .. Len(obs.defined[1]) :
           LET id == obs.defined[1][k].id
               old == obs.before[1][3]
           IN /\ RuleIndex(old, id) # 0
              /\ old[RuleIndex(old, id)].offset # obs.defined[1][k].offset

\* C15: after the user deletes an imported asset, no rule, no carried-set entry and
\* no group membership refers to its id.
C15_DeleteReleases ==
    obs.deleted # NoId =>
        /\ RuleIndex(attachRules, obs.deleted) = 0
        /\ obs.deleted \notin carriedIds
        /\ \A g \in 1 .. Len(groups) : \A k \in 1 .. Len(groups[g].items) :
               ~(groups[g].items[k].kind = "upload" /\ groups[g].items[k].id = obs.deleted)

\* C12: after any sequence of KeyQ commands no copy of a node has been added to the
\* scene graph: carrying moves the existing node under the vehicle (a node has the
\* one parent its parent field names) and never adds a duplicate of it.
C12_NoDuplicate ==
    /\ clones = <<>>
    /\ \A i \in Ids : nodes[i].parent \in {"none", "scene", "agv"}

\* C18: with the ledgers applied, a node is invisible whenever its id is in the
\* hidden-id ledger or it is a member of at least one hidden group, also when it
\* is a member of another group that is not hidden.
C18_HiddenWins ==
    \A u \in Uuids :
        (Found(u) /\ (\/ InSeq(hiddenUuids, u)
                      \/ \E g \in 1 .. Len(groups) :
                             /\ groups[g].hidden
                             /\ \E k \in 1 .. Len(groups[g].items) :
                                    Resolve(groups[g].items[k]) = u))
            => ~visible[u]

\* C19: applying the hidden-id ledger twice gives every node the visible flag that
\* applying it once gives.
C19_Idempotent ==
    ApplyHidden(hiddenUuids, ApplyHidden(hiddenUuids, visible))
        = ApplyHidden(hiddenUuids, visible)

\* the ledger lists a node that is visible, so that applying it changes a flag
C19_Witness ==
    /\ hiddenUuids # <<>>
    /\ ApplyHidden(hiddenUuids, visible) # visible

\* C20: after any sequence of group actions no group lists the same member id twice.
C20_MembersDistinct ==
    \A g \in 1 .. Len(groups) :
        \A j, k \in 1 .. Len(groups[g].items) :
            groups[g].items[j].id = groups[g].items[k].id => j = k

\* an add-member click named an id the selected group, of two members, listed already
C20_Witness ==
    /\ obs.readd
    /\ \E g \in 1 .. Len(groups) :
           groups[g].id = selectedGroupId /\ Len(groups[g].items) >= 2

\* C21: after the load that follows a reload of the page, every uuid that the
\* hidden-id ledger of the previous session listed and that names an object of the
\* scene is hidden again, and the groups of the previous session are the groups.
C21_HiddenAgain ==
    (obs.op = "Load" /\ obs.prev # None) =>
        /\ \A u \in Uuids :
               (InSeq(Parsed(obs.prev[1].hidden), u) /\ Found(u)) => ~visible[u]
        /\ Parsed(obs.prev[1].groups) # <<>> => groups = Parsed(obs.prev[1].groups)

\* C22: once the page is mounted the value stored under the key of each ledger is
\* the current value of the ledger, after every mutation; and a ledger the previous
\* session saved non-empty is stored unchanged after the load.
C22_WriteThrough ==
    /\ mounted => /\ store.uploads = <<uploads>>
                  /\ store.groups = <<groups>>
                  /\ store.hidden = <<hiddenUuids>>
    /\ (obs.op = "Load" /\ obs.prev # None) =>
           /\ Parsed(obs.prev[1].uploads) # <<>> => store.uploads = obs.prev[1].uploads
           /\ Parsed(obs.prev[1].groups) # <<>> => store.groups = obs.prev[1].groups
           /\ Parsed(obs.prev[1].hidden) # <<>> => store.hidden = obs.prev[1].hidden

\* C23: when the upload call fails, with a response that is not ok or with a network
\* error, the asset list, the scene graph and every other part of the state stay as
\* they were: only the status text changes, and it does not report a success.
C23_FailedImport ==
    [][obs'.op = "ImportFail" =>
          /\ UNCHANGED <<uploads, nodes, objMap, imported, store, history, pendingUndo,
                         draggedUploadId, dragRefs, arrowDown, carryVars, sideVars,
                         selectedPos, mounted, cam, disk>>
          /\ uploadStatus' \in {"Uploading...", "Upload failed"}]_vars

C23_Witness ==
    /\ obs.op = "ImportFail" /\ uploadStatus = "Upload failed"
    /\ Len(uploads) = 1 /\ imported = 1

\* C24: a delete removes the asset from the list whether the delete call is served,
\* is rejected or never resolves, and a served call is answered ok also when the
\* file could not be removed.
C24_DeleteRegardless ==
    obs.deleted # NoId =>
        /\ ~HasId(uploads, obs.deleted)
        /\ uploads = Remove(obs.before[1][1], obs.deleted)
        /\ HasId(obs.before[1][1], obs.deleted)
        /\ obs.call[1] = "served" => obs.call[3] = "ok"

C24_Witness ==
    /\ obs.deleted # NoId /\ obs.call[1] = "served" /\ ~obs.call[2]
    /\ Len(uploads) = 1

\* C25: when some hit outside the vehicle subtree has a non-zero bounding-box
\* volume, the hit chosen is outside the vehicle, has a non-zero volume, and no hit
\* outside the vehicle has a smaller non-zero volume, wherever the hits lie along
\* the ray.
C25_SmallestVolume ==
    obs.ray # None =>
        LET hs == obs.ray[1]
            out == {k \in 1 .. Len(hs) : ~InVehicle(hs[k].obj, nodes) /\ hs[k].vol > 0}
        IN out # {} =>
              \E k \in out :
                  /\ hs[k].obj = obs.ray[2]
                  /\ \A j \in out : hs[k].vol <= hs[j].vol

C25_Witness ==
    /\ obs.ray # None /\ Len(obs.ray[1]) = 3
    /\ obs.ray[1][1].vol = 0 /\ ~InVehicle(obs.ray[1][1].obj, nodes)
    /\ obs.ray[1][2].vol = 2 /\ ~InVehicle(obs.ray[1][2].obj, nodes)
    /\ obs.ray[1][3].vol = 1 /\ obs.ray[2] = obs.ray[1][3].obj
    /\ hoveredMesh = UuidOf(2)

\* C26: the node reported by a pointer-move of MeshPicker is never the vehicle nor a
\* node under it, whatever the hits are.
C26_NeverVehicle ==
    obs.ray # None => (hoveredMesh # agvUuid /\ ~InVehicle(obs.ray[2], nodes))

\* C27: a pointer-up received while no drag session is active pushes no history
\* entry, changes no asset transform, and leaves the selected-position indicator
\* cleared.
C27_IdleUpClears ==
    obs.op = "Idle" =>
        /\ history = obs.before[1][4]
        /\ uploads = obs.before[1][1]
        /\ nodes = obs.before[1][5]
        /\ selectedPos = None

\* C28: pointer-up and pointer-leave both end the session: while no session is
\* active the dragged id, the pending snapshot and every session ref are cleared, a
\* pointer-move changes no asset transform, and only a pointer-down that hits an
\* asset starts a session again.
C28_UpEndsSession ==
    /\ [](~dragging =>
            /\ draggedUploadId = NoId /\ pendingUndo = None
            /\ dragY = None /\ dragPos = None /\ lastPointer = None
            /\ dragMode = "null" /\ dragOffset = None)
    /\ [](obs.op = "IdleMove" =>
            /\ uploads = obs.before[1][1] /\ nodes = obs.before[1][5]
            /\ ~dragging)
    /\ [][(~dragging /\ dragging') => obs'.op = "Arm"]_vars

C28_Witness ==
    /\ obs.op = "IdleMove" /\ obs.movedDrops >= 1 /\ obs.bareDrops >= 1
    /\ selectedPos # None /\ Len(uploads) = 2

\* C29: a pointer-move handled by the vertical branch changes the height of the
\* dragged asset by minus the clientY delta since the previous pointer event of the
\* session (in units of 0.02) and leaves its X and Z as they were.
C29_VerticalDelta ==
    (obs.op = "Move" /\ obs.lastMode = "Y" /\ obs.mv # None
        /\ HasId(uploads, draggedUploadId)) =>
        LET p == PosOf(uploads, draggedUploadId)
            q == obs.mv[1]
        IN /\ p[2] = q[2] - obs.mv[2]
           /\ p[1] = q[1] /\ p[3] = q[3]

\* C30: in a session whose moves are handled by the horizontal branch the drag plane
\* stays at the height captured at the pointer-down, and a move leaves the height
\* of the dragged asset as it was before the move.
C30_HorizontalKeepsHeight ==
    /\ []((obs.op = "Move" /\ obs.lastMode = "XZ" /\ obs.mv # None
            /\ HasId(uploads, draggedUploadId)) =>
               PosOf(uploads, draggedUploadId)[2] = obs.mv[1][2])
    /\ [][obs'.op = "Move" => dragY' = dragY]_vars

\* C34: after every animation frame in FOLLOW or FPV mode the camera's height is at
\* least the ground height plus 0.2, wherever the camera stood when the mode was
\* entered.
C34_CameraAboveGround ==
    [][(cam.mode \in {"FOLLOW", "FPV"} /\ cam'.mode = cam.mode) =>
       cam'.y >= MinCameraY]_vars

\* C39: a request without a file, or with a string in its place, is answered 400
\* and stores nothing; a request that stores a file is answered with the reference
\* /uploads/<stamp>-<name>, the name of the one file it added, where <name> holds
\* only letters, digits, '.', '_' and '-', so no path separator.
C39_UploadEndpoint ==
    obs.op = "Upload" =>
        /\ obs.body.kind # "file" => (obs.answer.status = 400 /\ disk = obs.before[1])
        /\ disk # obs.before[1] =>
               /\ obs.answer.status = 200
               /\ obs.answer.dir = "/uploads/"
               /\ disk = obs.before[1] \cup {obs.answer.name}
               /\ \A k \in 1 .. Len(obs.answer.name.base) :
                      obs.answer.name.base[k] \in Allowed

C39_Witness ==
    /\ obs.op = "Upload" /\ obs.body.kind = "file" /\ Cardinality(disk) = 1
    /\ obs.body.name = <<"/", "e'", " ">>
    /\ obs.answer.name.base = <<"_", "_">>

C33_NoHitNoOp ==
    [][(obs'.op = "Move" /\ obs'.lastMode = "XZ"
          /\ IntersectPlane(lastPointer'[1], lastPointer'[2]) = None) =>
       UNCHANGED <<uploads, nodes, dragMode, dragY, dragOffset, history>>]_vars

\* C36: an undo keeps the set of imported asset ids, the carried set and the rules
\* as they were before it, whatever was imported after the popped snapshot was taken.
C36_UndoTransformsOnly ==
    obs.op = "Undo" =>
       /\ {uploads[i].id : i \in 1 .. Len(uploads)}
              = {obs.before[1][1][i].id : i \in 1 .. Len(obs.before[1][1])}
       /\ carriedIds = obs.before[1][2]
       /\ attachRules = obs.before[1][3]

\* C38: a pointer-move of a session changes the position of the dragged asset only:
\* the list keeps its entries in order, every entry keeps its scale, every entry
\* but the dragged one keeps its position and its scene object, and the carried
\* set, the rules and the history stack are unchanged.
C38_MoveFrame ==
    [][obs'.op = "Move" =>
       /\ Len(uploads') = Len(uploads)
       /\ \A i \in 1 .. Len(uploads) :
              /\ uploads'[i].id = uploads[i].id
              /\ uploads'[i].scale = uploads[i].scale
              /\ uploads[i].id # draggedUploadId =>
                     /\ uploads'[i].position = uploads[i].position
                     /\ nodes'[uploads[i].id] = nodes[uploads[i].id]
       /\ UNCHANGED <<carriedIds, attachRules, history>>]_vars

C38_Witness ==
    /\ obs.op = "Move" /\ Len(uploads) = 2 /\ HasId(uploads, draggedUploadId)
    /\ obs.mv # None /\ obs.mv[1] # PosOf(uploads, draggedUploadId)
    /\ \E i \in 1 .. 2 : /\ uploads[i].id # draggedUploadId
                           /\ uploads[i].position # PosOf(uploads, draggedUploadId)

\* C32: an import that resolves during a session appends one entity after the
\* entries the list has, which stay as they are with their scene objects, and
\* changes neither the grabbed id, the refs of the session, the pending snapshot
\* nor the history stack; and a pointer-move of a session whose asset is where the
\* moves so far have put it leaves the asset where this move puts it, so the moves
\* before and after the import all reach the transform.
C32_ImportDuringDrag ==
    /\ [][(dragging /\ imported' = imported + 1) =>
            /\ Len(uploads') = Len(uploads) + 1
            /\ SubSeq(uploads', 1, Len(uploads)) = uploads
            /\ \A i \in 1 .. Len(uploads) : nodes'[uploads[i].id] = nodes[uploads[i].id]
            /\ UNCHANGED <<history, pendingUndo, draggedUploadId, dragRefs>>]_vars
    /\ [][(obs'.op = "Move" /\ HasId(uploads, draggedUploadId) /\ dragPos # None
             /\ PosOf(uploads, draggedUploadId) = dragPos) =>
            PosOf(uploads', draggedUploadId) = dragPos']_vars

\* a move after an import that resolved during the session, which followed a move
C32_Witness ==
    /\ obs.op = "Move" /\ HasId(uploads, draggedUploadId)
    /\ obs.preDrag # None /\ Len(obs.preDrag[1]) = 1 /\ Len(uploads) = 2
    /\ uploads[1].id = draggedUploadId /\ uploads[1].position = dragPos
    /\ obs.mv # None /\ obs.mv[1] # dragPos
    /\ obs.mv[1] # PosOf(obs.preDrag[1], draggedUploadId)
    /\ uploads[2].position = initialAgvPos

\* C35: the proximity check of a toggle uses the position the vehicle has when the
\* key is pressed: every asset the toggle attaches was within pickRadius of that
\* position, so an asset the vehicle has left behind since the last telemetry
\* sample is not attached.
C35_CurrentPosition ==
    obs.op = "Toggle" =>
        \A i \in carriedIds \ obs.before[1][2] :
            Near(WorldOf(obs.before[1][5][i], obs.before[1][6]), obs.before[1][6].pos)

\* C37: every id of the carried set has a rule in the rule list.
C37_CarriedHasRule == \A i \in carriedIds : RuleIndex(attachRules, i) # 0

====
